---- MODULE Spec2Model ----
(***************************************************************************)
(* Model of feb13/calculo_disipacion_calor.py: the explicit 2D heat        *)
(* diffusion engine DifusionCalor2D, its configuration and the program     *)
(* main() that parses the command line, builds the engine and runs it.     *)
(*                                                                         *)
(* Temperatures, alpha, dx, dt and r are Python floats / numpy float64,    *)
(* i.e. IEEE-754 binary64.  They are modelled as binary64 values with the  *)
(* 53-bit significand kept exactly (as a little-endian sequence of 14-bit  *)
(* limbs, because the integers of TLC are 32 bits wide) and every          *)
(* arithmetic operation rounded to nearest, ties to even, as the hardware  *)
(* does.  The exponent range is not bounded (no overflow to inf, no        *)
(* subnormals) and -0.0 is identified with 0.0: the values of the model    *)
(* stay far from both limits.                                              *)
(***************************************************************************)
EXTENDS Integers, Sequences, FiniteSets, TLC

(***************************************************************************)
(* The element of a singleton set.  The({e : x \in {a}}) is e with x bound *)
(* to the value of a: a is evaluated once, before e, as Python evaluates   *)
(* the right-hand side of an assignment or the argument of a call once.    *)
(***************************************************************************)
The(S) == CHOOSE z \in S : TRUE

(***************************************************************************)
(* Natural numbers of arbitrary size: little-endian limbs in base 2^14,    *)
(* without leading (most significant) zero limbs; zero is << >>.           *)
(***************************************************************************)
LimbBits == 7 + 7
Base == 2^LimbBits

RECURSIVE BStrip(_)
BStrip(a) ==
  The({IF x = <<>> THEN x
       ELSE IF x[Len(x)] = 0 THEN BStrip(SubSeq(x, 1, Len(x) - 1)) ELSE x :
       x \in {a}})

BLimb(a, i) == IF i <= Len(a) THEN a[i] ELSE 0

BFromInt(k) ==
  BStrip(<<k % Base, (k \div Base) % Base, k \div (Base * Base)>>)

RECURSIVE BAddC(_, _, _, _)
BAddC(a, b, i, c) ==
  IF i > Len(a) /\ i > Len(b)
  THEN IF c = 0 THEN <<>> ELSE <<c>>
  ELSE The({<<t % Base>> \o BAddC(a, b, i + 1, t \div Base) :
            t \in {BLimb(a, i) + BLimb(b, i) + c}})

BAdd(a, b) == The({BAddC(x, y, 1, 0) : x \in {a}, y \in {b}})

RECURSIVE BSubC(_, _, _, _)
BSubC(a, b, i, c) ==
  IF i > Len(a) THEN <<>>
  ELSE The({<<t % Base>> \o BSubC(a, b, i + 1, IF t < 0 THEN 1 ELSE 0) :
            t \in {a[i] - BLimb(b, i) - c}})

\* a - b for a >= b
BSub(a, b) == The({BStrip(BSubC(x, y, 1, 0)) : x \in {a}, y \in {b}})

RECURSIVE BCmpFrom(_, _, _)
BCmpFrom(a, b, i) ==
  IF i = 0 THEN 0
  ELSE IF a[i] < b[i] THEN -1
  ELSE IF a[i] > b[i] THEN 1
  ELSE BCmpFrom(a, b, i - 1)

\* -1, 0 or 1 as a < b, a = b, a > b
BCmp(a, b) ==
  The({IF Len(x) < Len(y) THEN -1
       ELSE IF Len(x) > Len(y) THEN 1
       ELSE BCmpFrom(x, y, Len(x)) :
       x \in {a}, y \in {b}})

RECURSIVE BMulSmallC(_, _, _, _)
BMulSmallC(a, k, i, c) ==
  IF i > Len(a)
  THEN IF c = 0 THEN <<>> ELSE <<c>>
  ELSE The({<<t % Base>> \o BMulSmallC(a, k, i + 1, t \div Base) :
            t \in {a[i] * k + c}})

\* a * k for 0 <= k <= Base
BMulSmall(a, k) ==
  The({IF y = 0 THEN <<>> ELSE BMulSmallC(x, y, 1, 0) : x \in {a}, y \in {k}})

BShlLimbs(a, n) ==
  The({IF x = <<>> THEN x ELSE [i \in 1..y |-> 0] \o x : x \in {a}, y \in {n}})

RECURSIVE BMulFrom(_, _, _)
BMulFrom(a, b, i) ==
  IF i > Len(b) THEN <<>>
  ELSE BAdd(BShlLimbs(BMulSmall(a, b[i]), i - 1), BMulFrom(a, b, i + 1))

BMul(a, b) == The({BMulFrom(x, y, 1) : x \in {a}, y \in {b}})

\* a * 2^k
BShl(a, k) ==
  The({BShlLimbs(BMulSmall(x, 2^(y % LimbBits)), y \div LimbBits) :
       x \in {a}, y \in {k}})

RECURSIVE BDivSmallC(_, _, _, _)
BDivSmallC(a, k, i, rem) ==
  IF i = 0 THEN <<>>
  ELSE The({BDivSmallC(a, k, i - 1, t % k) \o <<t \div k>> :
            t \in {rem * Base + a[i]}})

\* floor(a / k) for 0 < k <= Base
BDivSmall(a, k) ==
  The({BStrip(BDivSmallC(x, y, Len(x), 0)) : x \in {a}, y \in {k}})

\* floor(a / 2^k)
BShr(a, k) ==
  The({IF y \div LimbBits >= Len(x) THEN <<>>
       ELSE BDivSmall(SubSeq(x, (y \div LimbBits) + 1, Len(x)), 2^(y % LimbBits)) :
       x \in {a}, y \in {k}})

RECURSIVE IntBitLen(_)
IntBitLen(k) == The({IF x = 0 THEN 0 ELSE 1 + IntBitLen(x \div 2) : x \in {k}})

BBitLen(a) ==
  The({IF x = <<>> THEN 0 ELSE (Len(x) - 1) * LimbBits + IntBitLen(x[Len(x)]) :
       x \in {a}})

\* bit k (k >= 0, bit 0 the least significant) of a
BBit(a, k) ==
  The({(BLimb(x, (y \div LimbBits) + 1) \div 2^(y % LimbBits)) % 2 :
       x \in {a}, y \in {k}})

\* TRUE iff some bit below bit k of a is set
BLowBits(a, k) ==
  The({\/ \E i \in 1..(y \div LimbBits) : BLimb(x, i) # 0
       \/ BLimb(x, (y \div LimbBits) + 1) % 2^(y % LimbBits) # 0 :
       x \in {a}, y \in {k}})

BIsOdd(a) == The({x # <<>> /\ x[1] % 2 = 1 : x \in {a}})

(***************************************************************************)
(* IEEE-754 binary64 values: (-1)^s * m * 2^e with m = 0 (then s = e = 0)  *)
(* or 2^52 <= m < 2^53, so that equal values are equal records.            *)
(***************************************************************************)
MantBits == 53

FZero == [s |-> 0, m |-> <<>>, e |-> 0]

\* the binary64 nearest to (-1)^s * (n + f) * 2^e, ties to even, where n has
\* len bits, 0 <= f < 1 and sticky tells whether f > 0; a sticky n has more
\* than MantBits + 1 bits.  q is n without its sh lowest bits, q1 is q
\* rounded by those bits.
FRoundOf(s, n, e, sticky, len) ==
  IF n = <<>> THEN FZero
  ELSE IF len <= MantBits
  THEN [s |-> s, m |-> BShl(n, MantBits - len), e |-> e - (MantBits - len)]
  ELSE The({The({IF BBitLen(q1) > MantBits
                 THEN [s |-> s, m |-> BShr(q1, 1), e |-> e + sh + 1]
                 ELSE [s |-> s, m |-> q1, e |-> e + sh] :
                 q1 \in {IF /\ BBit(n, sh - 1) = 1
                            /\ (sticky \/ BLowBits(n, sh - 1) \/ BIsOdd(q))
                         THEN BAdd(q, <<1>>) ELSE q :
                         q \in {BShr(n, sh)}}}) :
            sh \in {len - MantBits}})

FRound(s, n, e, sticky) ==
  The({The({FRoundOf(z, x, y, w, len) : len \in {BBitLen(x)}}) :
       z \in {s}, x \in {n}, y \in {e}, w \in {sticky}})

\* float(k) for a Python int k
FInt(k) == FRound(IF k < 0 THEN 1 ELSE 0, BFromInt(IF k < 0 THEN -k ELSE k), 0, FALSE)

FNeg(a) == The({IF x.m = <<>> THEN x ELSE [x EXCEPT !.s = 1 - x.s] : x \in {a}})

\* -1, 0, 1 as |a| < |b|, |a| = |b|, |a| > |b|
FMagCmp(a, b) ==
  IF a.m = <<>> THEN (IF b.m = <<>> THEN 0 ELSE -1)
  ELSE IF b.m = <<>> THEN 1
  ELSE IF a.e < b.e THEN -1
  ELSE IF a.e > b.e THEN 1
  ELSE BCmp(a.m, b.m)

\* -1, 0, 1 as a < b, a = b, a > b
FCmpOf(a, b) ==
  IF a.s # b.s THEN (IF a.s = 1 THEN -1 ELSE 1)
  ELSE IF a.s = 0 THEN FMagCmp(a, b) ELSE -FMagCmp(a, b)

FCmp(a, b) == The({FCmpOf(x, y) : x \in {a}, y \in {b}})

FLt(a, b) == FCmp(a, b) < 0
FLeq(a, b) == FCmp(a, b) <= 0

\* big + small for |big| >= |small| > 0; w is the significand of big at the
\* exponent of small
FAddOrd(big, small) ==
  IF big.e - small.e > MantBits + 2 THEN big
  ELSE The({FRound(big.s,
                   IF big.s = small.s THEN BAdd(w, small.m) ELSE BSub(w, small.m),
                   small.e, FALSE) :
            w \in {BShl(big.m, big.e - small.e)}})

\* a + b
FAddOf(a, b) ==
  IF a.m = <<>> THEN b
  ELSE IF b.m = <<>> THEN a
  ELSE The({FAddOrd(p[1], p[2]) :
            p \in {IF FMagCmp(a, b) < 0 THEN <<b, a>> ELSE <<a, b>>}})

FAdd(a, b) == The({FAddOf(x, y) : x \in {a}, y \in {b}})

\* a - b
FSub(a, b) == FAdd(a, FNeg(b))

\* a * b
FMulOf(a, b) ==
  IF a.m = <<>> \/ b.m = <<>> THEN FZero
  ELSE FRound((a.s + b.s) % 2, BMul(a.m, b.m), a.e + b.e, FALSE)

FMul(a, b) == The({FMulOf(x, y) : x \in {a}, y \in {b}})

\* q, or q - 1 when d * q exceeds rm
DivLower(rm, d, q) == IF BCmp(BMulSmall(d, q), rm) > 0 THEN q - 1 ELSE q

\* one digit of a long division in base Base: floor(rm / d) for rm < d * Base,
\* where the top limb of d is at least Base / 2, so that the estimate e0 from
\* the leading limbs, capped at Base - 1, is at most 2 too large
DivDigit(rm, d) ==
  The({DivLower(rm, d, q1) :
       q1 \in {DivLower(rm, d, q0) :
               q0 \in {IF e0 > Base - 1 THEN Base - 1 ELSE e0 :
                       e0 \in {(BLimb(rm, Len(d) + 1) * Base + BLimb(rm, Len(d)))
                                 \div d[Len(d)]}}}})

\* long division of the limbs i, i-1, ..., 1 of n by d, with remainder rm so
\* far: << quotient limbs, remainder >>.  cur is the running dividend, q its
\* quotient digit and qr the division of the limbs below
RECURSIVE BDivFrom(_, _, _, _)
BDivFrom(n, d, i, rm) ==
  IF i = 0 THEN << <<>>, rm >>
  ELSE The({The({The({<<qr[1] \o <<q>>, qr[2]>> :
                      qr \in {BDivFrom(n, d, i - 1, BSub(cur, BMulSmall(d, q)))}}) :
                 q \in {DivDigit(cur, d)}}) :
            cur \in {BStrip(<<n[i]>> \o rm)}})

\* << floor(n / d), n mod d >> for d with top limb at least Base / 2
BDivModOf(n, d) ==
  The({<<BStrip(res[1]), res[2]>> : res \in {BDivFrom(n, d, Len(n), <<>>)}})

BDivMod(n, d) == The({BDivModOf(x, y) : x \in {n}, y \in {d}})

\* the shift that fills the top limb of a significand
NormShift == 4 * LimbBits - MantBits

\* a / b for b # 0
FDivOf(a, b) ==
  IF a.m = <<>> THEN FZero
  ELSE The({FRound((a.s + b.s) % 2, qr[1], a.e - b.e - 4 * LimbBits, qr[2] # <<>>) :
            qr \in {BDivMod(BShlLimbs(BShl(a.m, NormShift), 4), BShl(b.m, NormShift))}})

FDiv(a, b) == The({FDivOf(x, y) : x \in {a}, y \in {b}})

\* float("n/d" written as a decimal literal): the binary64 nearest to n / d
FDec(n, d) == FDiv(FInt(n), FInt(d))

(***************************************************************************)
(* numpy arrays of float64: a 2-D array of shape (k, k) is a function on   *)
(* Celdas(k); indices start at 0 and index -1 is k - 1.                    *)
(***************************************************************************)
Celdas(k) == (0..(k - 1)) \X (0..(k - 1))

\* np.zeros((k, k), dtype=np.float64)
Zeros(k) == [p \in Celdas(k) |-> FZero]

\* the view m[f0:f0+k, c0:c0+k]
Slice(m, k, f0, c0) == [p \in Celdas(k) |-> m[<<p[1] + f0, p[2] + c0>>]]

\* x + y, x - y and k * x, element by element
ArrAdd(x, y) == [p \in DOMAIN x |-> FAdd(x[p], y[p])]
ArrSub(x, y) == [p \in DOMAIN x |-> FSub(x[p], y[p])]
ArrScale(k, x) == [p \in DOMAIN x |-> FMul(k, x[p])]

\* m after m[1:-1, 1:-1] = x, for m of shape (k, k)
SetInterior(m, k, x) ==
  [p \in DOMAIN m |->
     IF p[1] >= 1 /\ p[1] <= k - 2 /\ p[2] >= 1 /\ p[2] <= k - 2
     THEN x[<<p[1] - 1, p[2] - 1>>] ELSE m[p]]

(***************************************************************************)
(* ConfiguracionSimulacion and the defaults of its fields.                 *)
(***************************************************************************)
Cuatro == FInt(4)
Uno == FInt(1)

T_ARRIBA == FInt(100)
T_ABAJO == FZero
T_IZQUIERDA == FInt(30)
T_DERECHA == FInt(30)

ConfiguracionSimulacion(n, alpha, dx, pasos, cada_render, pausa, factor) ==
  [n |-> n, alpha |-> alpha, dx |-> dx, pasos |-> pasos,
   cada_render |-> cada_render, pausa |-> pausa,
   factor_seguridad_cfl |-> factor,
   t_arriba |-> T_ARRIBA, t_abajo |-> T_ABAJO,
   t_izquierda |-> T_IZQUIERDA, t_derecha |-> T_DERECHA]

(***************************************************************************)
(* DifusionCalor2D                                                         *)
(***************************************************************************)
\* dt_max = dx**2 / (4.0 * alpha); return factor_seguridad_cfl * dt_max
_calcular_dt_estable(c) ==
  The({FMul(c.factor_seguridad_cfl, dt_max) :
       dt_max \in {FDiv(FMul(c.dx, c.dx), FMul(Cuatro, c.alpha))}})

\* self.r = self.cfg.alpha * self.dt / (self.cfg.dx**2)
NumeroDifusion(c, dt) == FDiv(FMul(c.alpha, dt), FMul(c.dx, c.dx))

\* mutant: the assignment to the last column is missing
_aplicar_contornos_sin_derecha(c, matriz) ==
  LET m1 == [p \in DOMAIN matriz |-> IF p[1] = 0 THEN c.t_arriba ELSE matriz[p]]
      m2 == [p \in DOMAIN matriz |-> IF p[1] = c.n - 1 THEN c.t_abajo ELSE m1[p]]
      m3 == [p \in DOMAIN matriz |-> IF p[2] = 0 THEN c.t_izquierda ELSE m2[p]]
  IN  m3

\* mutant: the columns are assigned first, the rows last
_aplicar_contornos_columnas_primero(c, matriz) ==
  LET m1 == [p \in DOMAIN matriz |-> IF p[2] = 0 THEN c.t_izquierda ELSE matriz[p]]
      m2 == [p \in DOMAIN matriz |-> IF p[2] = c.n - 1 THEN c.t_derecha ELSE m1[p]]
      m3 == [p \in DOMAIN matriz |-> IF p[1] = 0 THEN c.t_arriba ELSE m2[p]]
      m4 == [p \in DOMAIN matriz |-> IF p[1] = c.n - 1 THEN c.t_abajo ELSE m3[p]]
  IN  m4

\* mutant: matriz[0, :] += t_arriba instead of matriz[0, :] = t_arriba
_aplicar_contornos_acumula(c, matriz) ==
  LET m1 == [p \in DOMAIN matriz |->
               IF p[1] = 0 THEN FAdd(matriz[p], c.t_arriba) ELSE matriz[p]]
      m2 == [p \in DOMAIN matriz |-> IF p[1] = c.n - 1 THEN c.t_abajo ELSE m1[p]]
      m3 == [p \in DOMAIN matriz |-> IF p[2] = 0 THEN c.t_izquierda ELSE m2[p]]
      m4 == [p \in DOMAIN matriz |-> IF p[2] = c.n - 1 THEN c.t_derecha ELSE m3[p]]
  IN  m4

\* the four assignments, in order: row 0, row -1, column 0, column -1
_aplicar_contornos(c, matriz) ==
  LET m1 == [p \in DOMAIN matriz |-> IF p[1] = 0 THEN c.t_arriba ELSE matriz[p]]
      m2 == [p \in DOMAIN matriz |-> IF p[1] = c.n - 1 THEN c.t_abajo ELSE m1[p]]
      m3 == [p \in DOMAIN matriz |-> IF p[2] = 0 THEN c.t_izquierda ELSE m2[p]]
      m4 == [p \in DOMAIN matriz |-> IF p[2] = c.n - 1 THEN c.t_derecha ELSE m3[p]]
  IN  m4

\* mutant: the boundaries are not applied to the new grid
inicializar_placa_sin_contornos(c) == Zeros(c.n)

inicializar_placa(c) == _aplicar_contornos(c, Zeros(c.n))

\* mutant: r * (...) is subtracted from u[1:-1, 1:-1] instead of added
Estencil_signo_invertido(v, r, k) ==
  LET centro == Slice(v, k - 2, 1, 1)
  IN  ArrSub(centro,
        ArrScale(r,
          ArrSub(ArrAdd(ArrAdd(ArrAdd(Slice(v, k - 2, 2, 1), Slice(v, k - 2, 0, 1)),
                               Slice(v, k - 2, 1, 2)),
                        Slice(v, k - 2, 1, 0)),
                 ArrScale(Cuatro, centro))))

\* mutant: 4.0 * u[1:-1, 1:-1] is added to the sum instead of subtracted
Estencil_suma_centro(v, r, k) ==
  LET centro == Slice(v, k - 2, 1, 1)
  IN  ArrAdd(centro,
        ArrScale(r,
          ArrAdd(ArrAdd(ArrAdd(ArrAdd(Slice(v, k - 2, 2, 1), Slice(v, k - 2, 0, 1)),
                               Slice(v, k - 2, 1, 2)),
                        Slice(v, k - 2, 1, 0)),
                 ArrScale(Cuatro, centro))))

\* mutant: the neighbour u[1:-1, :-2] is missing from the sum
Estencil_tres_vecinos(v, r, k) ==
  LET centro == Slice(v, k - 2, 1, 1)
  IN  ArrAdd(centro,
        ArrScale(r,
          ArrSub(ArrAdd(ArrAdd(Slice(v, k - 2, 2, 1), Slice(v, k - 2, 0, 1)),
                        Slice(v, k - 2, 1, 2)),
                 ArrScale(Cuatro, centro))))

\* the right-hand side of the assignment to u_new[1:-1, 1:-1], read from v
Estencil(v, r, k) ==
  LET centro == Slice(v, k - 2, 1, 1)
  IN  ArrAdd(centro,
        ArrScale(r,
          ArrSub(ArrAdd(ArrAdd(ArrAdd(Slice(v, k - 2, 2, 1), Slice(v, k - 2, 0, 1)),
                               Slice(v, k - 2, 1, 2)),
                        Slice(v, k - 2, 1, 0)),
                 ArrScale(Cuatro, centro))))

\* mutant: u_new = self.u, the same array object
CopyAlias(heap, id) == [mem |-> heap, ref |-> id]

\* self.u.copy(): a new array object holding the contents of object id
Copy(heap, id) == [mem |-> Append(heap, heap[id]), ref |-> Len(heap) + 1]

\* the heap and self.u after actualizar_paso
PasoEn(heap, id, r, c) ==
  The({The({[mem |-> [cp.mem EXCEPT ![cp.ref] = _aplicar_contornos(c, u_new)],
             ref |-> cp.ref] :
            u_new \in {SetInterior(cp.mem[cp.ref], c.n,
                                   Estencil(cp.mem[id], r, c.n))}}) :
       cp \in {Copy(heap, id)}})

(***************************************************************************)
(* State.  pc is the position of the program (or of the caller of the      *)
(* engine); cfg, dt, r, u and iteracion are the attributes of the engine   *)
(* (None before __init__ has set them); mem is the heap of array objects   *)
(* in allocation order and u the index in mem of the array the engine      *)
(* holds; vueltas counts the iterations of the for loop of ejecutar that   *)
(* have started; frames is the terminal: one entry per call of             *)
(* renderizar_terminal, with the iteration number it printed.              *)
(***************************************************************************)
VARIABLES pc, cfg, dt, r, mem, u, iteracion, vueltas, frames

vars == <<pc, cfg, dt, r, mem, u, iteracion, vueltas, frames>>

None == [none |-> TRUE]

\* bounds of the inputs
MaxN == 4
MaxPasos == 10
MaxCadaRender == 5
MaxNMotor == 5
MaxPasosMotor == 2
MaxNPlaca == 4
MaxPasosPlaca == 2

MinN == 3

\* the command line: values of --n, --alpha, --dx, --pasos, --cada-render,
\* --pausa and --factor-cfl
ArgN == (MinN - 1)..MaxN
ArgAlpha == {FZero, FInt(1)}
ArgDx == {FZero, FInt(1)}
ArgPasos == 0..MaxPasos
ArgCadaRender == 0..MaxCadaRender
ArgPausa == {FInt(-1), FZero, FDec(3, 100)}
ArgFactor == {FZero, FDec(1, 2), FDec(95, 100), FInt(1), FDec(3, 2)}

\* mutant: the check of --factor-cfl is missing
ArgsValidos_sin_factor(n, alpha, dx, pasos, cada_render, factor) ==
  /\ ~(n < MinN)
  /\ ~FLeq(alpha, FZero)
  /\ ~FLeq(dx, FZero)
  /\ ~(pasos <= 0)
  /\ ~(cada_render <= 0)

\* the checks of parsear_argumentos, none of which raises
ArgsValidos(n, alpha, dx, pasos, cada_render, factor) ==
  /\ ~(n < MinN)
  /\ ~FLeq(alpha, FZero)
  /\ ~FLeq(dx, FZero)
  /\ ~(pasos <= 0)
  /\ ~(cada_render <= 0)
  /\ (FLt(FZero, factor) /\ FLeq(factor, Uno))

\* cfg = parsear_argumentos(): a ValueError leaves main
parsear_argumentos ==
  /\ pc = "main"
  /\ \E n \in ArgN, alpha \in ArgAlpha, dx \in ArgDx, pasos \in ArgPasos,
        cada_render \in ArgCadaRender, pausa \in ArgPausa, factor \in ArgFactor :
       IF ArgsValidos(n, alpha, dx, pasos, cada_render, factor)
       THEN /\ cfg' = ConfiguracionSimulacion(n, alpha, dx, pasos, cada_render,
                                              pausa, factor)
            /\ pc' = "construir"
       ELSE /\ cfg' = cfg
            /\ pc' = "ValueError"
  /\ UNCHANGED <<dt, r, mem, u, iteracion, vueltas, frames>>

\* the attributes set by DifusionCalor2D.__init__(c)
Motor(c) ==
  The({[dt |-> dt0, r |-> NumeroDifusion(c, dt0),
        mem |-> <<inicializar_placa(c)>>, u |-> 1, iteracion |-> 0] :
       dt0 \in {_calcular_dt_estable(c)}})

\* simulador = DifusionCalor2D(cfg); simulador.ejecutar() is entered
__init__ ==
  /\ pc = "construir"
  /\ \E m \in {Motor(cfg)} :
         /\ dt' = m.dt
         /\ r' = m.r
         /\ mem' = m.mem
         /\ u' = m.u
         /\ iteracion' = m.iteracion
  /\ pc' = "for"
  /\ UNCHANGED <<cfg, vueltas, frames>>

\* mutant: the step does not count itself
actualizar_paso_sin_contar ==
  /\ \E res \in {PasoEn(mem, u, r, cfg)} :
         /\ mem' = res.mem
         /\ u' = res.ref
  /\ UNCHANGED <<cfg, dt, r, iteracion>>

\* the effect of self.actualizar_paso() on the engine
actualizar_paso ==
  /\ \E res \in {PasoEn(mem, u, r, cfg)} :
         /\ mem' = res.mem
         /\ u' = res.ref
  /\ iteracion' = iteracion + 1
  /\ UNCHANGED <<cfg, dt, r>>

\* mutant: rendering a frame also counts as an iteration
renderizar_terminal_cuenta ==
  /\ frames' = Append(frames, [iteracion |-> iteracion])
  /\ iteracion' = iteracion + 1
  /\ UNCHANGED <<cfg, dt, r, mem, u>>

\* the effect of self.renderizar_terminal(): prints, changes no attribute
renderizar_terminal ==
  /\ frames' = Append(frames, [iteracion |-> iteracion])
  /\ UNCHANGED <<cfg, dt, r, mem, u, iteracion>>

\* ejecutar: one more iteration of the for loop starts with actualizar_paso
ejecutar_paso ==
  /\ pc = "for"
  /\ vueltas < cfg.pasos
  /\ actualizar_paso
  /\ vueltas' = vueltas + 1
  /\ pc' = "if"
  /\ UNCHANGED frames

\* ejecutar: the if holds and the frame is rendered
ejecutar_render ==
  /\ pc = "if"
  /\ (iteracion % cfg.cada_render = 0 \/ iteracion = 1)
  /\ renderizar_terminal
  /\ pc' = "sleep"
  /\ UNCHANGED vueltas

\* ejecutar: the if does not hold
ejecutar_sin_render ==
  /\ pc = "if"
  /\ ~(iteracion % cfg.cada_render = 0 \/ iteracion = 1)
  /\ pc' = "for"
  /\ UNCHANGED <<cfg, dt, r, mem, u, iteracion, vueltas, frames>>

\* ejecutar: time.sleep(self.cfg.pausa) raises ValueError for a negative pause
ejecutar_sleep ==
  /\ pc = "sleep"
  /\ pc' = IF FLt(cfg.pausa, FZero) THEN "ValueError" ELSE "for"
  /\ UNCHANGED <<cfg, dt, r, mem, u, iteracion, vueltas, frames>>

\* ejecutar: the loop is exhausted, the final frame is rendered
ejecutar_fin ==
  /\ pc = "for"
  /\ vueltas = cfg.pasos
  /\ renderizar_terminal
  /\ pc' = "fin"
  /\ UNCHANGED vueltas

\* the program: main()
Init ==
  /\ pc = "main"
  /\ cfg = None
  /\ dt = None
  /\ r = None
  /\ mem = <<>>
  /\ u = 0
  /\ iteracion = None
  /\ vueltas = 0
  /\ frames = <<>>

Next ==
  \/ parsear_argumentos
  \/ __init__
  \/ ejecutar_paso
  \/ ejecutar_render
  \/ ejecutar_sin_render
  \/ ejecutar_sleep
  \/ ejecutar_fin

Spec == Init /\ [][Next]_vars

\* the fairness of a running process: it keeps executing its next statement
SpecJusto == Spec /\ WF_vars(Next)

(***************************************************************************)
(* The engine used as a library: a caller builds a ConfiguracionSimulacion *)
(* with any boundary temperatures, constructs the engine and calls         *)
(* actualizar_paso.                                                        *)
(***************************************************************************)
PASOS_DEFECTO == 500
CADA_RENDER_DEFECTO == 5
PAUSA_DEFECTO == FDec(3, 100)
FACTOR_DEFECTO == FDec(95, 100)

Temperaturas == {FZero, FInt(30), FInt(100)}
FactoresMotor == {FACTOR_DEFECTO, Uno}

\* ConfiguracionSimulacion(n=n, factor_seguridad_cfl=factor, t_arriba=ta, ...)
ConfiguracionCon(n, alpha, dx, factor, ta, tb, ti, td) ==
  [ConfiguracionSimulacion(n, alpha, dx, PASOS_DEFECTO, CADA_RENDER_DEFECTO,
                           PAUSA_DEFECTO, factor)
     EXCEPT !.t_arriba = ta, !.t_abajo = tb, !.t_izquierda = ti, !.t_derecha = td]

\* the engine right after DifusionCalor2D(c)
Construido(c) ==
  \E m \in {Motor(c)} :
      /\ cfg = c
      /\ dt = m.dt
      /\ r = m.r
      /\ mem = m.mem
      /\ u = m.u
      /\ iteracion = m.iteracion
      /\ vueltas = 0
      /\ frames = <<>>

InitMotor ==
  /\ pc = "motor"
  /\ \E n \in MinN..MaxNMotor, factor \in FactoresMotor,
        ta \in Temperaturas, tb \in Temperaturas,
        ti \in Temperaturas, td \in Temperaturas :
       Construido(ConfiguracionCon(n, Uno, Uno, factor, ta, tb, ti, td))

\* the caller calls simulador.actualizar_paso()
llamar_actualizar_paso ==
  /\ pc = "motor"
  /\ iteracion < MaxPasosMotor
  /\ actualizar_paso
  /\ UNCHANGED <<pc, vueltas, frames>>

NextMotor == llamar_actualizar_paso

SpecMotor == InitMotor /\ [][NextMotor]_vars

(***************************************************************************)
(* _aplicar_contornos and actualizar_paso as functions of the grid: a test *)
(* replaces the grid of a constructed engine by an arbitrary one and calls *)
(* the two methods in any order; pc names the last call.                   *)
(***************************************************************************)
ValoresPlaca == <<FDec(-55, 10), FInt(30), FDec(1, 10)>>
TemperaturasPlaca == {FInt(30), FDec(1, 10)}

\* a grid whose cell (i, j) holds ValoresPlaca[(a*i + b*j + c) mod 3]
Patron(n, a, b, c) ==
  [p \in Celdas(n) |-> ValoresPlaca[((a * p[1] + b * p[2] + c) % 3) + 1]]

InitPlaca ==
  /\ pc = "placa"
  /\ \E n \in MinN..MaxNPlaca, a \in 0..1, b \in 0..1, c \in 0..2,
        ta \in TemperaturasPlaca, tb \in TemperaturasPlaca,
        ti \in TemperaturasPlaca, td \in TemperaturasPlaca :
       \E k \in {ConfiguracionCon(n, Uno, Uno, FACTOR_DEFECTO, ta, tb, ti, td)} :
         \E m \in {Motor(k)} :
           /\ cfg = k
           /\ dt = m.dt
           /\ r = m.r
           /\ mem = Append(m.mem, Patron(n, a, b, c))
           /\ u = 2
           /\ iteracion = 0
           /\ vueltas = 0
           /\ frames = <<>>

\* the test calls simulador._aplicar_contornos(simulador.u)
llamar_aplicar_contornos ==
  /\ pc \in {"placa", "contornos", "paso"}
  /\ mem' = [mem EXCEPT ![u] = _aplicar_contornos(cfg, mem[u])]
  /\ pc' = "contornos"
  /\ UNCHANGED <<cfg, dt, r, u, iteracion, vueltas, frames>>

\* the test calls simulador.actualizar_paso()
llamar_paso_placa ==
  /\ pc \in {"placa", "contornos", "paso"}
  /\ iteracion < MaxPasosPlaca
  /\ actualizar_paso
  /\ pc' = "paso"
  /\ UNCHANGED <<vueltas, frames>>

NextPlaca == llamar_aplicar_contornos \/ llamar_paso_placa

SpecPlaca == InitPlaca /\ [][NextPlaca]_vars

(***************************************************************************)
(* The time step and the diffusion number: the engine is constructed from  *)
(* every valid combination of alpha, dx and safety factor below.           *)
(***************************************************************************)
AlphasCFL == {FDec(1, 10), FDec(3, 10), Uno, FInt(3)}
DxCFL == {FDec(7, 10), Uno, FDec(19, 10), FInt(5)}
FactoresCFL == {FDec(1, 10), FDec(1, 2), FACTOR_DEFECTO, Uno}

InitCFL ==
  /\ pc = "construir"
  /\ \E alpha \in AlphasCFL, dx \in DxCFL, factor \in FactoresCFL :
       cfg = ConfiguracionSimulacion(MinN, alpha, dx, PASOS_DEFECTO,
                                     CADA_RENDER_DEFECTO, PAUSA_DEFECTO, factor)
  /\ dt = None
  /\ r = None
  /\ mem = <<>>
  /\ u = 0
  /\ iteracion = None
  /\ vueltas = 0
  /\ frames = <<>>

NextCFL == __init__

SpecCFL == InitCFL /\ [][NextCFL]_vars

(***************************************************************************)
(* Properties                                                              *)
(***************************************************************************)
\* an engine has been constructed
Existe == mem # <<>>

\* the grid the engine holds
U == mem[u]

Interior(n) == (1..(n - 2)) \X (1..(n - 2))

\* C1 as stated: in every state of a constructed engine, after any number of
\* steps, every cell of row 0 holds the top temperature, every cell of row
\* N-1 the bottom one, every cell of column 0 the left one and every cell of
\* column N-1 the right one.
C1_BordesCompletos ==
  Existe =>
    \A k \in 0..(cfg.n - 1) :
      /\ U[<<0, k>>] = cfg.t_arriba
      /\ U[<<cfg.n - 1, k>>] = cfg.t_abajo
      /\ U[<<k, 0>>] = cfg.t_izquierda
      /\ U[<<k, cfg.n - 1>>] = cfg.t_derecha

\* C1 amended: in every state of a constructed engine, after any number of
\* steps, every cell of column 0 holds the left temperature and every cell
\* of column N-1 the right one, and every cell of row 0 and of row N-1 that
\* is not a corner holds the top, respectively the bottom, temperature.
C1_Bordes ==
  Existe =>
    /\ \A k \in 0..(cfg.n - 1) :
         /\ U[<<k, 0>>] = cfg.t_izquierda
         /\ U[<<k, cfg.n - 1>>] = cfg.t_derecha
    /\ \A k \in 1..(cfg.n - 2) :
         /\ U[<<0, k>>] = cfg.t_arriba
         /\ U[<<cfg.n - 1, k>>] = cfg.t_abajo

\* C1 witness: two steps done on a grid with interior, where the top and
\* left temperatures differ and so do the bottom and right ones.
C1_Witness ==
  /\ pc = "motor"
  /\ iteracion = 2
  /\ cfg.n >= 4
  /\ cfg.t_arriba # cfg.t_izquierda
  /\ cfg.t_abajo # cfg.t_derecha
  /\ \E p \in Interior(cfg.n) : U[p] # FZero

\* C2: after _aplicar_contornos on any grid, and after inicializar_placa
\* (the array the constructor made, mem[1]) and after every step, the
\* corners (0,0) and (N-1,0) hold the left temperature and the corners
\* (0,N-1) and (N-1,N-1) the right one, whatever top and bottom are.
EsquinasDeColumna(m, c) ==
  /\ m[<<0, 0>>] = c.t_izquierda
  /\ m[<<c.n - 1, 0>>] = c.t_izquierda
  /\ m[<<0, c.n - 1>>] = c.t_derecha
  /\ m[<<c.n - 1, c.n - 1>>] = c.t_derecha

C2_Esquinas ==
  /\ pc \in {"placa", "contornos", "paso"} => EsquinasDeColumna(mem[1], cfg)
  /\ pc \in {"contornos", "paso"} => EsquinasDeColumna(U, cfg)

\* C2 witness: _aplicar_contornos has just run on a test grid whose corners
\* held other values, with top # left and bottom # right.
C2_Witness ==
  /\ pc = "contornos"
  /\ iteracion = 0
  /\ cfg.t_arriba # cfg.t_izquierda
  /\ cfg.t_abajo # cfg.t_derecha
  /\ cfg.t_izquierda # cfg.t_derecha

\* the value the claim gives to cell p after a step from grid v
FormulaPaso(v, k, p) ==
  LET i == p[1]
      j == p[2]
  IN  FAdd(v[p],
           FMul(k, FSub(FAdd(FAdd(FAdd(v[<<i + 1, j>>], v[<<i - 1, j>>]),
                                  v[<<i, j + 1>>]),
                             v[<<i, j - 1>>]),
                        FMul(Cuatro, v[p]))))

\* the scenario of the claim: N = 5, r = 0.2375, top 100, bottom 0,
\* left = right = 30
Escenario ==
  /\ cfg.n = 5
  /\ r = FDec(2375, 10000)
  /\ cfg.t_arriba = FInt(100)
  /\ cfg.t_abajo = FZero
  /\ cfg.t_izquierda = FInt(30)
  /\ cfg.t_derecha = FInt(30)

\* C3: a step sets every interior cell (i,j) to
\* old[i,j] + r*(old[i+1,j] + old[i-1,j] + old[i,j+1] + old[i,j-1] - 4*old[i,j])
\* with every term read from the grid as it was before the step, the array
\* object that held the previous grid keeps its contents and the engine
\* holds another object; in the scenario, cell [1][1] is 30.875 after the
\* first step.
C3_Paso ==
  [][iteracion' = iteracion + 1 =>
       /\ \A p \in Interior(cfg.n) : mem'[u'][p] = FormulaPaso(mem[u], r, p)
       /\ u' # u
       /\ mem'[u] = mem[u]
       /\ (Escenario /\ iteracion = 0) => mem'[u'][<<1, 1>>] = FDec(30875, 1000)]_vars

\* C3 witness: the second step of the scenario has been taken, so the step
\* has read an interior that is not 0.
C3_Witness ==
  /\ pc = "motor"
  /\ Escenario
  /\ iteracion = 2
  /\ mem[2][<<1, 1>>] = FDec(30875, 1000)
  /\ U[<<2, 2>>] # FZero

\* C4: the iteration counter is 0 right after construction, every
\* actualizar_paso of the run adds exactly 1 to it, nothing else changes
\* it, and so it equals the number of steps completed.
C4_Contador ==
  /\ [](Existe => iteracion = vueltas)
  /\ [][/\ (pc = "construir" /\ pc' = "for") => iteracion' = 0
        /\ (pc = "for" /\ pc' = "if") => iteracion' = iteracion + 1
        /\ (Existe /\ ~(pc = "for" /\ pc' = "if")) => iteracion' = iteracion]_vars

\* C4 witness: a run has finished after three steps.
C4_Witness ==
  /\ pc = "fin"
  /\ cfg.pasos = 3
  /\ iteracion = 3

\* the iteration numbers printed so far
Iteraciones(fr) == [k \in 1..Len(fr) |-> fr[k].iteracion]

\* the steps among 1..k after which the claim says a frame is rendered
Periodicos(k, cada) ==
  SelectSeq([i \in 1..k |-> i], LAMBDA i : i % cada = 0 \/ i = 1)

\* the run has ended: ejecutar returned or an exception left it
Terminado == pc \in {"fin", "ValueError"}

\* C5 as stated: during a run, a frame is rendered after step k exactly when
\* k % cada_render = 0 or k = 1, once, in increasing order, and one more
\* frame follows the loop: the frames of a run that has ended are those
\* steps followed by the last one (1, 5, 10, 10 for 10 steps rendered every 5).
C5_Frames ==
  Existe =>
    /\ pc \in {"for", "sleep"} =>
         Iteraciones(frames) = Periodicos(iteracion, cfg.cada_render)
    /\ pc = "if" =>
         Iteraciones(frames) = Periodicos(iteracion - 1, cfg.cada_render)
    /\ Terminado =>
         Iteraciones(frames) =
           Periodicos(cfg.pasos, cfg.cada_render) \o <<cfg.pasos>>
    /\ (Terminado /\ cfg.pasos = 10 /\ cfg.cada_render = 5) =>
         Iteraciones(frames) = <<1, 5, 10, 10>>

\* C6 as stated: for every pasos > 0 and cada_render > 0 the run ends by
\* returning from ejecutar, after exactly pasos steps, and its last frame,
\* rendered after the loop, shows iteration pasos.
C6_Termina ==
  (Existe /\ Terminado) =>
    /\ pc = "fin"
    /\ vueltas = cfg.pasos
    /\ iteracion = cfg.pasos
    /\ frames # <<>>
    /\ frames[Len(frames)].iteracion = cfg.pasos

\* C7 as stated: once the engine is constructed from a valid configuration,
\* 0 < r <= factor_seguridad_cfl / 4 <= 1/4.
C7_CFL ==
  (Existe /\ pc = "for") =>
    /\ FLt(FZero, r)
    /\ FLeq(r, FDiv(cfg.factor_seguridad_cfl, Cuatro))
    /\ FLeq(FDiv(cfg.factor_seguridad_cfl, Cuatro), FDiv(Uno, Cuatro))

\* the value inicializar_placa gives to cell p: the left or right
\* temperature on the first and last column, the top or bottom one on the
\* rest of the first and last row, 0 inside
ValorInicial(c, p) ==
  IF p[2] = 0 THEN c.t_izquierda
  ELSE IF p[2] = c.n - 1 THEN c.t_derecha
  ELSE IF p[1] = 0 THEN c.t_arriba
  ELSE IF p[1] = c.n - 1 THEN c.t_abajo
  ELSE FZero

\* C8: right after inicializar_placa (the constructor, no step yet) the grid
\* is N x N, every boundary cell holds its boundary temperature and every
\* interior cell holds 0.
C8_PlacaInicial ==
  (Existe /\ pc = "motor" /\ iteracion = 0) =>
    /\ DOMAIN U = Celdas(cfg.n)
    /\ \A p \in Celdas(cfg.n) : U[p] = ValorInicial(cfg, p)
    /\ \A p \in Interior(cfg.n) : U[p] = FZero

\* C8 witness: a freshly constructed 5 x 5 engine whose top and bottom
\* temperatures are not 0 and differ, as do the left and right ones.
C8_Witness ==
  /\ pc = "motor"
  /\ iteracion = 0
  /\ cfg.n = 5
  /\ cfg.t_arriba # FZero
  /\ cfg.t_abajo # FZero
  /\ cfg.t_arriba # cfg.t_abajo
  /\ cfg.t_izquierda # cfg.t_derecha

\* C9: _aplicar_contornos is idempotent and leaves the interior alone: a
\* call changes no interior cell, applying it to its own result changes
\* nothing, and a call that follows another call leaves the grid as it was.
C9_Idempotente ==
  [][pc' = "contornos" =>
       /\ \A p \in Interior(cfg.n) : mem'[u][p] = mem[u][p]
       /\ _aplicar_contornos(cfg, mem'[u]) = mem'[u]
       /\ pc = "contornos" => mem' = mem]_vars

\* C9 witness: _aplicar_contornos has run on a test grid whose interior
\* cells are not all equal and whose temperatures are not all equal.
C9_Witness ==
  /\ pc = "contornos"
  /\ iteracion = 0
  /\ \E p \in Interior(cfg.n), q \in Interior(cfg.n) : U[p] # U[q]
  /\ cfg.t_arriba # cfg.t_abajo

\* every cell of m holds k and the four boundary temperatures are k
Uniforme(m, c, k) ==
  /\ \A p \in DOMAIN m : m[p] = k
  /\ c.t_arriba = k
  /\ c.t_abajo = k
  /\ c.t_izquierda = k
  /\ c.t_derecha = k

\* C10: if the four boundary temperatures are C and every cell of the grid
\* holds C, then every cell still holds C after a step (and so after any
\* number of steps).
C10_PuntoFijo ==
  [][(iteracion' = iteracion + 1 /\ Uniforme(mem[u], cfg, mem[u][<<0, 0>>]))
       => Uniforme(mem'[u'], cfg, mem[u][<<0, 0>>])]_vars

\* C10 witness: two steps taken from a grid uniformly at a temperature
\* C # 0 that is not a binary fraction.
C10_Witness ==
  /\ pc = "paso"
  /\ iteracion = 2
  /\ Uniforme(U, cfg, FDec(1, 10))

\* the boundary temperatures of the program: top 100, bottom 0, left and
\* right 30
ContornosDefecto ==
  /\ cfg.t_arriba = FInt(100)
  /\ cfg.t_abajo = FZero
  /\ cfg.t_izquierda = FInt(30)
  /\ cfg.t_derecha = FInt(30)

Cuarto == FDiv(Uno, Cuatro)
Cien == FInt(100)

\* the sum of the first i interior cells of the k x k grid m, row by row
RECURSIVE SumaInterior(_, _, _)
SumaInterior(m, k, i) ==
  IF i = 0 THEN FZero
  ELSE FAdd(SumaInterior(m, k, i - 1),
            m[<<1 + ((i - 1) \div (k - 2)), 1 + ((i - 1) % (k - 2))>>])

\* the mean of the interior cells of the k x k grid m
MediaInterior(m, k) ==
  FDiv(SumaInterior(m, k, (k - 2) * (k - 2)), FInt((k - 2) * (k - 2)))

\* C11: in a run from the initialized grid with top 100, bottom 0, left and
\* right 30 and 0 < r <= 1/4, after every number of steps every interior
\* cell, and the mean of the interior cells, is at least 0 and at most 100.
C11_Maximo ==
  (Existe /\ ContornosDefecto /\ FLt(FZero, r) /\ FLeq(r, Cuarto)) =>
    /\ \A p \in Interior(cfg.n) : FLeq(FZero, U[p]) /\ FLeq(U[p], Cien)
    /\ \E media \in {MediaInterior(U, cfg.n)} :
         FLeq(FZero, media) /\ FLeq(media, Cien)

\* C11 witness: a run of ten steps with r = 1/4 on a 4 x 4 grid has ended
\* and some interior cell is hotter than the side boundaries.
C11_Witness ==
  /\ pc = "fin"
  /\ ContornosDefecto
  /\ cfg.n = 4
  /\ r = Cuarto
  /\ iteracion = 10
  /\ \E p \in Interior(cfg.n) : FLt(FInt(30), U[p])

\* C12: in a run from the initialized grid with top 100, bottom 0, left and
\* right 30, the mean of the interior cells is 0 before the first step and
\* strictly greater than 0 after every number k >= 1 of steps.
C12_MediaCrece ==
  (Existe /\ ContornosDefecto) =>
    \E media \in {MediaInterior(U, cfg.n)} :
      /\ iteracion = 0 => media = FZero
      /\ iteracion >= 1 => FLt(FZero, media)

\* C12 witness: the seventh step of a run on a 4 x 4 grid has just been
\* taken and the interior mean is above 0.
C12_Witness ==
  /\ pc = "if"
  /\ ContornosDefecto
  /\ cfg.n = 4
  /\ iteracion = 7
  /\ FLt(FZero, MediaInterior(U, cfg.n))

\* a configuration error, in the words of the claim
ErrorDeConfiguracion(n, alpha, dx, pasos, cada_render, factor) ==
  \/ n < 3
  \/ FLeq(alpha, FZero)
  \/ FLeq(dx, FZero)
  \/ pasos <= 0
  \/ cada_render <= 0
  \/ ~(FLt(FZero, factor) /\ FLeq(factor, Uno))

\* the configuration the program holds has no configuration error
SinError ==
  ~ErrorDeConfiguracion(cfg.n, cfg.alpha, cfg.dx, cfg.pasos, cfg.cada_render,
                        cfg.factor_seguridad_cfl)

\* C13: every command line with a configuration error (N < 3, alpha <= 0,
\* dx <= 0, pasos <= 0, cada_render <= 0 or factor outside (0, 1]) fails the
\* checks of parsear_argumentos; main constructs an engine only from a
\* configuration without error; and after a failed parsear_argumentos no
\* engine exists, no step and no render has been done, and nothing more
\* happens.
C13_Validacion ==
  /\ [](pc = "main" =>
         \A n \in ArgN, alpha \in ArgAlpha, dx \in ArgDx, pasos \in ArgPasos,
            cada_render \in ArgCadaRender, factor \in ArgFactor :
           ErrorDeConfiguracion(n, alpha, dx, pasos, cada_render, factor)
             => ~ArgsValidos(n, alpha, dx, pasos, cada_render, factor))
  /\ []((pc = "construir" \/ Existe) => SinError)
  /\ [](cfg = None => (~Existe /\ iteracion = None /\ vueltas = 0 /\ frames = <<>>))
  /\ [][(pc = "ValueError" /\ cfg = None) => FALSE]_vars

\* C13 witness: parsear_argumentos has raised ValueError.
C13_Witness ==
  /\ pc = "ValueError"
  /\ cfg = None
  /\ ~Existe

\* C14 as stated: every configuration that has passed parsear_argumentos has
\* a pause of at least 0, so ejecutar never calls time.sleep with a negative
\* duration and no run of a constructed engine ends in an exception.
C14_PausaValida ==
  /\ (pc = "construir" \/ Existe) => FLeq(FZero, cfg.pausa)
  /\ pc = "sleep" => FLeq(FZero, cfg.pausa)
  /\ ~(Existe /\ pc = "ValueError")

(***************************************************************************)
(* _bloque_por_temperatura as a function of its arguments.  Its arguments  *)
(* are Python floats, one of which is nan (float("nan"), and what every    *)
(* cell, np.min and np.max hold after a step with r = nan, as --alpha nan  *)
(* gives): arithmetic with nan gives nan and every comparison with nan is  *)
(* False.  COLORAMA_DISPONIBLE is whether the import of colorama worked.   *)
(***************************************************************************)
NaN == [nan |-> TRUE]

\* a - b, a / b, a * b, a <= b and a < b of Python floats
NSub(a, b) == IF a = NaN \/ b = NaN THEN NaN ELSE FSub(a, b)
NMul(a, b) == IF a = NaN \/ b = NaN THEN NaN ELSE FMul(a, b)
NLeq(a, b) == IF a = NaN \/ b = NaN THEN FALSE ELSE FLeq(a, b)
NLt(a, b) == IF a = NaN \/ b = NaN THEN FALSE ELSE FLt(a, b)

ZeroDivisionError == [excepcion |-> "ZeroDivisionError"]

NDiv(a, b) ==
  IF b = FZero THEN ZeroDivisionError
  ELSE IF a = NaN \/ b = NaN THEN NaN
  ELSE FDiv(a, b)

\* np.clip(x, lo, hi) = np.minimum(np.maximum(x, lo), hi), which keeps nan
Clip(x, lo, hi) ==
  IF x = NaN THEN NaN
  ELSE IF FLt(x, lo) THEN lo
  ELSE IF FLt(hi, x) THEN hi
  ELSE x

\* int(x) of a float x with |x| < Base: the integer part, towards zero
int(x) ==
  IF x.m = <<>> THEN 0
  ELSE IF x.s = 1 THEN -BLimb(BShr(x.m, -x.e), 1)
  ELSE BLimb(BShr(x.m, -x.e), 1)

escala == <<" ", ".", ":", "-", "=", "+", "*", "#", "%", "@">>

\* the value of nivel after lines 105-109
Nivel(temp, t_min, t_max) ==
  IF NLeq(t_max, t_min) THEN FZero
  ELSE The({IF q = ZeroDivisionError THEN q ELSE Clip(q, FZero, Uno) :
            q \in {NDiv(NSub(temp, t_min), NSub(t_max, t_min))}})

\* lines 114-117: the glyph of the ASCII scale, twice
BloqueASCII(nivel) ==
  IF nivel = NaN THEN [excepcion |-> "ValueError"]
  ELSE The({[excepcion |-> "", idx |-> idx, bloque |-> <<escala[idx + 1], escala[idx + 1]>>] :
            idx \in {The({IF k < Len(escala) - 1 THEN k ELSE Len(escala) - 1 :
                          k \in {int(NMul(nivel, FInt(Len(escala) - 1)))}})}})

\* lines 119-129: the colour of the block
BloqueColor(nivel) ==
  [excepcion |-> "",
   bloque |-> IF NLt(nivel, FDec(15, 100)) THEN "BLUE"
              ELSE IF NLt(nivel, FDec(30, 100)) THEN "CYAN"
              ELSE IF NLt(nivel, FDec(50, 100)) THEN "GREEN"
              ELSE IF NLt(nivel, FDec(70, 100)) THEN "YELLOW"
              ELSE IF NLt(nivel, FDec(85, 100)) THEN "LIGHTRED_EX"
              ELSE "RED"]

\* the call: nivel, and what is returned or raised
_bloque_por_temperatura(temp, t_min, t_max, COLORAMA_DISPONIBLE) ==
  The({[nivel |-> nivel,
        salida |-> IF nivel = ZeroDivisionError THEN nivel
                   ELSE IF ~COLORAMA_DISPONIBLE THEN BloqueASCII(nivel)
                   ELSE BloqueColor(nivel)] :
       nivel \in {Nivel(temp, t_min, t_max)}})

ValoresBloque == {FDec(-55, 10), FZero, FDec(1, 10), FInt(30), FInt(100), NaN}

InitBloque ==
  /\ pc = "bloque"
  /\ cfg = None
  /\ dt = None
  /\ r = None
  /\ mem = <<>>
  /\ u = 0
  /\ iteracion = None
  /\ vueltas = 0
  /\ frames = <<>>

\* a caller calls _bloque_por_temperatura(temp, t_min, t_max); frames keeps
\* the arguments, nivel and the outcome
llamar_bloque ==
  /\ pc = "bloque"
  /\ \E temp \in ValoresBloque, t_min \in ValoresBloque, t_max \in ValoresBloque,
        colorama \in BOOLEAN :
       \E res \in {_bloque_por_temperatura(temp, t_min, t_max, colorama)} :
         /\ frames' = <<[temp |-> temp, t_min |-> t_min, t_max |-> t_max,
                         colorama |-> colorama, nivel |-> res.nivel,
                         salida |-> res.salida]>>
         /\ pc' = IF res.salida.excepcion = "" THEN "bloque_fin"
                  ELSE res.salida.excepcion
  /\ UNCHANGED <<cfg, dt, r, mem, u, iteracion, vueltas>>

NextBloque == llamar_bloque

SpecBloque == InitBloque /\ [][NextBloque]_vars

\* the call whose outcome the state holds
Llamada == frames[1]

\* C15 as stated: for every temperature and every (min, max), the call
\* raises nothing, nivel is 0 when max <= min and otherwise
\* (value - min) / (max - min) clamped to [0, 1], so nivel is within [0, 1],
\* and in the ASCII fallback the glyph index is one of 0..9.
C15_Nivel ==
  pc # "bloque" =>
    /\ pc = "bloque_fin"
    /\ NLeq(Llamada.t_max, Llamada.t_min) => Llamada.nivel = FZero
    /\ ~NLeq(Llamada.t_max, Llamada.t_min) =>
         Llamada.nivel =
           Clip(NDiv(NSub(Llamada.temp, Llamada.t_min),
                     NSub(Llamada.t_max, Llamada.t_min)), FZero, Uno)
    /\ NLeq(FZero, Llamada.nivel) /\ NLeq(Llamada.nivel, Uno)
    /\ ~Llamada.colorama => Llamada.salida.idx \in 0..9

\* the arguments of the call are numbers
SinNaN == NaN \notin {Llamada.temp, Llamada.t_min, Llamada.t_max}

\* C15 for numbers: the same, for every call whose arguments are not nan
C15_NivelNumeros == (pc # "bloque" /\ SinNaN) => C15_Nivel

\* C16: in a run, rendering a frame leaves the grid (the array the engine
\* holds and the contents of every array), the iteration counter, dt and r
\* unchanged; the configuration, dt and r of a constructed engine never
\* change and are the values the constructor computed; and the grid and the
\* counter change only in actualizar_paso.
C16_SoloElPaso ==
  /\ [](Existe => (dt = _calcular_dt_estable(cfg) /\ r = NumeroDifusion(cfg, dt)))
  /\ [][/\ frames' # frames =>
             (mem' = mem /\ u' = u /\ iteracion' = iteracion /\ dt' = dt /\ r' = r)
        /\ Existe => (cfg' = cfg /\ dt' = dt /\ r' = r)
        /\ (Existe /\ (mem' # mem \/ u' # u \/ iteracion' # iteracion)) =>
             (pc = "for" /\ pc' = "if" /\ frames' = frames)]_vars

\* C16 witness: a run of at least five steps has ended after at least three
\* frames, rendered between the steps.
C16_Witness ==
  /\ pc = "fin"
  /\ iteracion >= 5
  /\ Len(frames) >= 3
  /\ cfg.cada_render = 2

====
